---- MODULE Spec2Model ----
(***************************************************************************)
(* Model of pgmpy/models/DynamicBayesianNetwork.py: the two-slice template *)
(* graph of a Dynamic Bayesian Network, its edge admission rules, slice    *)
(* queries, CPD association, check_model, initialize_initial_state and     *)
(* moralize.  The graph primitive (networkx DiGraph behind DirectedGraph)  *)
(* is a set of nodes and a set of directed edges; a node is <<name, slice>>*)
(* and an edge is <<u, v>>.                                                *)
(***************************************************************************)
EXTENDS Integers, Sequences, FiniteSets, TLC

\* ---------------------------------------------------------------- bounds
\* most template edges (slice-0 intra edges plus inter-slice edges) committed
MaxEdges == 2
\* most entries of self.cpds
MaxCpds == 2

\* ---------------------------------------------------------------- inputs
Names == {"D", "G", "I"}
\* slice indices a caller passes to add_edge and to the slice queries
SliceArgs == {0, 1, 2}
\* well-formed (node_name, time_slice) arguments
NodeArgs == {<<n, s>> : n \in Names, s \in SliceArgs}
\* add_edge arguments: every pair of well-formed nodes, and two pairs with an
\* endpoint that is not a 2-element (name, slice) pair
EdgeArgs ==
    (NodeArgs \X NodeArgs)
    \cup {<<<<"D">>, <<"G", 0>>>>, <<<<"D", 0>>, <<"G", 0, 0>>>>}
\* slice arguments of the queries, one of them invalid
QuerySlices == SliceArgs \cup {-1}
\* arguments of add_nodes_from
NameLists == {<<"D", "G">>, <<"I", "I">>}
\* arguments of add_edges_from
Ebunches ==
    { <<<<<<"D", 0>>, <<"G", 0>>>>, <<<<"I", 0>>, <<"G", 0>>>>>>,
      <<<<<<"D", 1>>, <<"G", 1>>>>, <<<<"G", 1>>, <<"D", 0>>>>, <<<<"G", 0>>, <<"I", 0>>>>>>,
      <<<<<<"G", 0>>, <<"I", 0>>>>, <<<<"I", 0>>, <<"D", 0>>>>, <<<<"D", 2>>, <<"G", 2>>>>>> }

\* names and edges used while CPDs are attached
CpdNames == {"D", "G"}
CpdNodes == {<<n, s>> : n \in CpdNames, s \in {0, 1}}
CpdEdgeArgs ==
    { <<<<"D", 0>>, <<"G", 0>>>>, <<<<"D", 0>>, <<"D", 1>>>>,
      <<<<"D", 0>>, <<"G", 1>>>>, <<<<"G", 1>>, <<"D", 0>>>> }
\* slice arguments of get_cpds, one of them invalid
CpdQuerySlices == {0, 1, -1}
\* a CPD: its class, owned variable, evidence variables, and whether every
\* column of its value table sums to 1 within the tolerance of check_model
CPD(kind, variable, evidence, ok) ==
    [kind |-> kind, variable |-> variable, evidence |-> evidence, ok |-> ok]

VARIABLES node, edge, cpds, ret
vars == <<node, edge, cpds, ret>>

\* ----------------------------------------------------------- error kinds
NoError == "none"
MalformedNodeError == "MalformedNodeError"
InvalidDirectionError == "InvalidDirectionError"
UnsupportedSpanError == "UnsupportedSpanError"
SelfLoopError == "SelfLoopError"
CycleError == "CycleError"
InvalidSliceError == "InvalidSliceError"
UnsupportedFactorTypeError == "UnsupportedFactorTypeError"
UnknownVariableError == "UnknownVariableError"
InconsistentParentsError == "InconsistentParentsError"
ProbabilityNormalizationError == "ProbabilityNormalizationError"
\* raised by the graph primitive for a node that is not in the graph
NetworkXError == "NetworkXError"

\* the record a call leaves behind: operation, arguments, error, value
Return(op, args, err, val) == [op |-> op, args |-> args, err |-> err, val |-> val]

\* ------------------------------------------------------- graph primitive
\* nodes reachable from the set S along directed edges of E
RECURSIVE Reach(_, _)
Reach(E, S) ==
    LET T == S \cup {e[2] : e \in {x \in E : x[1] \in S}}
    IN  IF T = S THEN S ELSE Reach(E, T)

\* nx.has_path(G, source, target)
has_path(E, source, target) == target \in Reach(E, {source})

\* DiGraph.add_edge(u, v): both endpoints become nodes, the edge is stored
super_add_edge(G, u, v) ==
    [node |-> G.node \cup {u, v}, edge |-> G.edge \cup {<<u, v>>}]

\* add_node creating the node anew, which drops the edges it had
super_add_node_reset(G, n) ==
    [node |-> G.node \cup {n}, edge |-> {e \in G.edge : e[1] # n /\ e[2] # n}]

\* DiGraph.add_node(n)
super_add_node(G, n) == [node |-> G.node \cup {n}, edge |-> G.edge]

\* DirectedGraph.get_parents(n) = predecessors of n
get_parents(E, n) == {e[1] : e \in {x \in E : x[2] = n}}

\* ---------------------------------------------------------------- add_edge
\* normalize with the forward inter-slice branch keeping the caller's slices
normalize_keep_slices(start, end) ==
    IF Len(start) # 2 \/ Len(end) # 2
    THEN [err |-> MalformedNodeError, start |-> start, end |-> end]
    ELSE IF start[2] = end[2]
    THEN [err |-> NoError, start |-> <<start[1], 0>>, end |-> <<end[1], 0>>]
    ELSE IF start[2] = end[2] - 1
    THEN [err |-> NoError, start |-> start, end |-> end]
    ELSE IF start[2] = end[2] + 1
    THEN [err |-> InvalidDirectionError, start |-> start, end |-> end]
    ELSE [err |-> UnsupportedSpanError, start |-> start, end |-> end]

\* normalize with the backward branch normalizing instead of raising
normalize_allow_backward(start, end) ==
    IF Len(start) # 2 \/ Len(end) # 2
    THEN [err |-> MalformedNodeError, start |-> start, end |-> end]
    ELSE IF start[2] = end[2]
    THEN [err |-> NoError, start |-> <<start[1], 0>>, end |-> <<end[1], 0>>]
    ELSE IF start[2] = end[2] - 1
    THEN [err |-> NoError, start |-> <<start[1], 0>>, end |-> <<end[1], 1>>]
    ELSE IF start[2] = end[2] + 1
    THEN [err |-> NoError, start |-> <<start[1], 1>>, end |-> <<end[1], 0>>]
    ELSE [err |-> UnsupportedSpanError, start |-> start, end |-> end]

\* lines 138-154: shape check and slice-relationship dispatch
normalize(start, end) ==
    IF Len(start) # 2 \/ Len(end) # 2
    THEN [err |-> MalformedNodeError, start |-> start, end |-> end]
    ELSE IF start[2] = end[2]
    THEN [err |-> NoError, start |-> <<start[1], 0>>, end |-> <<end[1], 0>>]
    ELSE IF start[2] = end[2] - 1
    THEN [err |-> NoError, start |-> <<start[1], 0>>, end |-> <<end[1], 1>>]
    ELSE IF start[2] = end[2] + 1
    THEN [err |-> InvalidDirectionError, start |-> start, end |-> end]
    ELSE [err |-> UnsupportedSpanError, start |-> start, end |-> end]

\* validate without the path query
validate_no_path_check(G, start, end) ==
    IF start = end THEN SelfLoopError ELSE NoError

\* validate with the self-loop test comparing the names only
validate_same_name(G, start, end) ==
    IF start[1] = end[1]
    THEN SelfLoopError
    ELSE IF start \in G.node /\ end \in G.node /\ has_path(G.edge, end, start)
    THEN CycleError
    ELSE NoError

\* lines 156-160: self-loop and cycle checks on the normalized edge
validate(G, start, end) ==
    IF start = end
    THEN SelfLoopError
    ELSE IF start \in G.node /\ end \in G.node /\ has_path(G.edge, end, start)
    THEN CycleError
    ELSE NoError

\* commit with the second add_edge repeating the slice-0 edge
commit_no_flip(G, start, end) ==
    LET G1 == super_add_edge(G, start, end)
    IN  IF start[2] = end[2]
        THEN super_add_edge(G1, <<start[1], start[2]>>, <<end[1], end[2]>>)
        ELSE G1

\* commit mirroring every edge, inter-slice ones included
commit_mirror_all(G, start, end) ==
    LET G1 == super_add_edge(G, start, end)
    IN  super_add_edge(G1, <<start[1], 1 - start[2]>>, <<end[1], 1 - end[2]>>)

\* lines 162-165: commit the edge and, for an intra-slice edge, its mirror
commit(G, start, end) ==
    LET G1 == super_add_edge(G, start, end)
    IN  IF start[2] = end[2]
        THEN super_add_edge(G1, <<start[1], 1 - start[2]>>, <<end[1], 1 - end[2]>>)
        ELSE G1

\* add_edge creating the endpoints before the self-loop and cycle checks
add_edge_nodes_first(G, start, end) ==
    LET n == normalize(start, end)
    IN  IF n.err # NoError
        THEN [err |-> n.err, node |-> G.node, edge |-> G.edge]
        ELSE LET v == validate(G, n.start, n.end)
             IN  IF v # NoError
                 THEN [err |-> v, node |-> G.node \cup {n.start, n.end}, edge |-> G.edge]
                 ELSE LET G2 == commit(G, n.start, n.end)
                      IN  [err |-> NoError, node |-> G2.node, edge |-> G2.edge]

\* add_edge(start, end): the error raised and the graph left behind
add_edge(G, start, end) ==
    LET n == normalize(start, end)
    IN  IF n.err # NoError
        THEN [err |-> n.err, node |-> G.node, edge |-> G.edge]
        ELSE LET v == validate(G, n.start, n.end)
             IN  IF v # NoError
                 THEN [err |-> v, node |-> G.node, edge |-> G.edge]
                 ELSE LET G2 == commit(G, n.start, n.end)
                      IN  [err |-> NoError, node |-> G2.node, edge |-> G2.edge]

\* lines 99-100: add_node for each name of the sequence
RECURSIVE add_nodes_from(_, _)
add_nodes_from(G, names) ==
    IF names = <<>>
    THEN G
    ELSE add_nodes_from(super_add_node(G, <<Head(names), 0>>), Tail(names))

\* add_edges_from undoing the edges of the batch when one of them fails
add_edges_from_rollback(G, ebunch) ==
    LET f[i \in 0 .. Len(ebunch)] ==
            IF i = 0
            THEN [err |-> NoError, node |-> G.node, edge |-> G.edge]
            ELSE IF f[i - 1].err # NoError
            THEN f[i - 1]
            ELSE add_edge([node |-> f[i - 1].node, edge |-> f[i - 1].edge],
                          ebunch[i][1], ebunch[i][2])
        r == f[Len(ebunch)]
    IN  IF r.err # NoError
        THEN [err |-> r.err, node |-> G.node, edge |-> G.edge]
        ELSE r

\* lines 183-184: add_edge for each pair in order; the first error propagates
RECURSIVE add_edges_from(_, _)
add_edges_from(G, ebunch) ==
    IF ebunch = <<>>
    THEN [err |-> NoError, node |-> G.node, edge |-> G.edge]
    ELSE LET r == add_edge(G, Head(ebunch)[1], Head(ebunch)[2])
         IN  IF r.err # NoError
             THEN r
             ELSE add_edges_from([node |-> r.node, edge |-> r.edge], Tail(ebunch))

\* ------------------------------------------------------------ slice queries
\* a Python list built by iterating a set or dict: some order, each element once
RECURSIVE SetToSeq(_)
SetToSeq(S) ==
    IF S = {}
    THEN <<>>
    ELSE LET x == CHOOSE y \in S : TRUE
         IN  <<x>> \o SetToSeq(S \ {x})

\* DiGraph.edges(): the list of directed edges
edges(E) == SetToSeq(E)

\* line 114: the distinct base names
nodes(N) == {n[1] : n \in N}

\* lines 203, 239, 260: the slice argument must be an integer >= 0
valid_slice(time_slice) == time_slice >= 0

\* get_intra_edges keeping every edge whose endpoints share a slice
get_intra_edges_any_slice(E, time_slice) ==
    LET intra(e) == e[1][2] = e[2][2]
        sel == SelectSeq(edges(E), intra)
    IN  [i \in 1 .. Len(sel) |-> <<<<sel[i][1][1], time_slice>>, <<sel[i][2][1], time_slice>>>>]

\* line 206
get_intra_edges(E, time_slice) ==
    LET intra(e) == e[1][2] = e[2][2] /\ e[2][2] = 0
        sel == SelectSeq(edges(E), intra)
    IN  [i \in 1 .. Len(sel) |-> <<<<sel[i][1][1], time_slice>>, <<sel[i][2][1], time_slice>>>>]

\* line 220
get_inter_edges(E) ==
    LET inter(e) == e[1][2] # e[2][2]
    IN  SelectSeq(edges(E), inter)

\* get_interface_nodes taking the target endpoint of each inter-slice edge
get_interface_nodes_target(E, time_slice) ==
    LET ie == get_inter_edges(E)
    IN  [i \in 1 .. Len(ie) |-> <<ie[i][2][1], time_slice>>]

\* line 242
get_interface_nodes(E, time_slice) ==
    LET ie == get_inter_edges(E)
    IN  [i \in 1 .. Len(ie) |-> <<ie[i][1][1], time_slice>>]

\* line 263
get_slice_nodes(N, time_slice) == {<<n, time_slice>> : n \in nodes(N)}

\* ---------------------------------------------------------------- moralize
\* DiGraph.to_undirected().edges(): direction dropped, duplicates merged
to_undirected(E) == {{e[1], e[2]} : e \in E}

\* itertools.combinations(parents, 2) as undirected edges
combinations2(S) == {{p, q} : p \in S, q \in S} \ {{p} : p \in S}

\* lines 432-434: marry the parents of each node in turn
RECURSIVE moralize_loop(_, _, _)
moralize_loop(E, ns, moral_graph) ==
    IF ns = <<>>
    THEN moral_graph
    ELSE moralize_loop(E, Tail(ns),
                       moral_graph \cup combinations2(get_parents(E, Head(ns))))

\* moralize visiting the slice-0 nodes only
moralize_slice0(G) ==
    moralize_loop(G.edge, SetToSeq({n \in G.node : n[2] = 0}), to_undirected(G.edge))

\* lines 430-436: the edge set of the moral graph
moralize(G) == moralize_loop(G.edge, SetToSeq(G.node), to_undirected(G.edge))

\* -------------------------------------------------------------------- CPDs
\* cpd.variables: the owned variable and the evidence
variables(cpd) == {cpd.variable} \cup cpd.evidence

\* add_cpds looking up the owned variable only, not the evidence
RECURSIVE add_cpds_owner_only(_, _, _)
add_cpds_owner_only(N, cs, args) ==
    IF args = <<>>
    THEN [err |-> NoError, cpds |-> cs]
    ELSE LET cpd == Head(args)
         IN  IF cpd.kind \notin {"TabularCPD", "TreeCPD", "RuleCPD"}
             THEN [err |-> UnsupportedFactorTypeError, cpds |-> cs]
             ELSE IF cpd.variable \notin N
             THEN [err |-> UnknownVariableError, cpds |-> cs]
             ELSE add_cpds_owner_only(N, Append(cs, cpd), Tail(args))

\* lines 297-304: each CPD is checked and appended in turn
RECURSIVE add_cpds(_, _, _)
add_cpds(N, cs, args) ==
    IF args = <<>>
    THEN [err |-> NoError, cpds |-> cs]
    ELSE LET cpd == Head(args)
         IN  IF cpd.kind \notin {"TabularCPD", "TreeCPD", "RuleCPD"}
             THEN [err |-> UnsupportedFactorTypeError, cpds |-> cs]
             ELSE IF variables(cpd) \ (variables(cpd) \cap N) # {}
             THEN [err |-> UnknownVariableError, cpds |-> cs]
             ELSE add_cpds(N, Append(cs, cpd), Tail(args))

\* the lookup returning the last CPD of the list owned by node
RECURSIVE last_cpd(_, _)
last_cpd(cs, n) ==
    IF cs = <<>>
    THEN <<>>
    ELSE IF cs[Len(cs)].variable = n
    THEN <<cs[Len(cs)]>>
    ELSE last_cpd(SubSeq(cs, 1, Len(cs) - 1), n)

\* lines 337-339: the first CPD of the list owned by node, <<>> for None
RECURSIVE first_cpd(_, _)
first_cpd(cs, n) ==
    IF cs = <<>>
    THEN <<>>
    ELSE IF Head(cs).variable = n THEN <<Head(cs)>> ELSE first_cpd(Tail(cs), n)

\* lines 333-339: get_cpds(node=n)
get_cpds(N, cs, n) ==
    IF n \notin N
    THEN [err |-> UnknownVariableError, val |-> <<>>]
    ELSE [err |-> NoError, val |-> first_cpd(cs, n)]

\* line 341: get_cpds(time_slice=s), the CPDs contained in one slice
get_cpds_slice(N, cs, time_slice) ==
    LET in_slice(cpd) == variables(cpd) \subseteq get_slice_nodes(N, time_slice)
    IN  SelectSeq(cs, in_slice)

\* lines 357-368: the check of one node
check_node(G, cs, n) ==
    LET cpd == get_cpds(G.node, cs, n).val
    IN  IF cpd # <<>> /\ cpd[1].kind = "TabularCPD"
        THEN IF cpd[1].evidence # get_parents(G.edge, n)
             THEN InconsistentParentsError
             ELSE IF ~cpd[1].ok
             THEN ProbabilityNormalizationError
             ELSE NoError
        ELSE NoError

\* lines 356-369: nodes are checked in turn, the first failure is raised
RECURSIVE check_loop(_, _, _)
check_loop(G, cs, ns) ==
    IF ns = <<>>
    THEN [err |-> NoError, node |-> <<>>]
    ELSE LET c == check_node(G, cs, Head(ns))
         IN  IF c # NoError
             THEN [err |-> c, node |-> <<Head(ns)>>]
             ELSE check_loop(G, cs, Tail(ns))

check_model(G, cs) == check_loop(G, cs, SetToSeq(G.node))

\* the guard letting every parent set through
same_slice_always(parents) == TRUE

\* line 400: every parent lies in the slice of the first parent
same_slice(parents) ==
    \A x \in parents : x[2] = Head(SetToSeq(parents))[2]

\* new_cpd reusing the evidence of the CPD it is copied from
new_cpd_copy_evidence(cpd, temp_var, parents) ==
    CPD("TabularCPD", temp_var, cpd.evidence, cpd.ok)

\* lines 402-405: the CPD built for temp_var from cpd
new_cpd(cpd, temp_var, parents) == CPD("TabularCPD", temp_var, parents, cpd.ok)

\* the loop registering each new CPD twice
RECURSIVE initialize_loop_append_twice(_, _, _)
initialize_loop_append_twice(G, cs, i) ==
    IF i > Len(cs)
    THEN [err |-> NoError, node |-> <<>>, cpds |-> cs]
    ELSE LET cpd == cs[i]
             temp_var == <<cpd.variable[1], 1 - cpd.variable[2]>>
         IN  IF temp_var \notin G.node
             THEN [err |-> NetworkXError, node |-> <<temp_var>>, cpds |-> cs]
             ELSE LET parents == get_parents(G.edge, temp_var)
                      cs1 == IF \A x \in 1 .. Len(cs) : cs[x].variable # temp_var
                             THEN IF same_slice(parents)
                                  THEN add_cpds(G.node, cs,
                                                <<new_cpd(cpd, temp_var, parents),
                                                  new_cpd(cpd, temp_var, parents)>>).cpds
                                  ELSE cs
                             ELSE cs
                      chk == check_model(G, cs1)
                  IN  IF chk.err # NoError
                      THEN [err |-> chk.err, node |-> chk.node, cpds |-> cs1]
                      ELSE initialize_loop_append_twice(G, cs1, i + 1)

\* the loop with the already-registered test looking only at the CPDs
\* visited so far
RECURSIVE initialize_loop_visited_only(_, _, _)
initialize_loop_visited_only(G, cs, i) ==
    IF i > Len(cs)
    THEN [err |-> NoError, node |-> <<>>, cpds |-> cs]
    ELSE LET cpd == cs[i]
             temp_var == <<cpd.variable[1], 1 - cpd.variable[2]>>
         IN  IF temp_var \notin G.node
             THEN [err |-> NetworkXError, node |-> <<temp_var>>, cpds |-> cs]
             ELSE LET parents == get_parents(G.edge, temp_var)
                      cs1 == IF \A x \in 1 .. i - 1 : cs[x].variable # temp_var
                             THEN IF same_slice(parents)
                                  THEN add_cpds(G.node, cs, <<new_cpd(cpd, temp_var, parents)>>).cpds
                                  ELSE cs
                             ELSE cs
                      chk == check_model(G, cs1)
                  IN  IF chk.err # NoError
                      THEN [err |-> chk.err, node |-> chk.node, cpds |-> cs1]
                      ELSE initialize_loop_visited_only(G, cs1, i + 1)

\* lines 396-407: the loop runs over self.cpds while it appends to it
RECURSIVE initialize_loop(_, _, _)
initialize_loop(G, cs, i) ==
    IF i > Len(cs)
    THEN [err |-> NoError, node |-> <<>>, cpds |-> cs]
    ELSE LET cpd == cs[i]
             temp_var == <<cpd.variable[1], 1 - cpd.variable[2]>>
         IN  IF temp_var \notin G.node
             THEN [err |-> NetworkXError, node |-> <<temp_var>>, cpds |-> cs]
             ELSE LET parents == get_parents(G.edge, temp_var)
                      cs1 == IF \A x \in 1 .. Len(cs) : cs[x].variable # temp_var
                             THEN IF same_slice(parents)
                                  THEN add_cpds(G.node, cs, <<new_cpd(cpd, temp_var, parents)>>).cpds
                                  ELSE cs
                             ELSE cs
                      chk == check_model(G, cs1)
                  IN  IF chk.err # NoError
                      THEN [err |-> chk.err, node |-> chk.node, cpds |-> cs1]
                      ELSE initialize_loop(G, cs1, i + 1)

initialize_initial_state(G, cs) == initialize_loop(G, cs, 1)

\* CPDs a caller may pass to add_cpds in a graph with nodes N and edges E:
\* a table for a node, with evidence that is empty or the node's parents; a
\* tree for a slice-0 node; a variable or an evidence variable that is not in
\* the graph; an object that is not a CPD
CpdArgs(N, E) ==
    UNION {{CPD("TabularCPD", v, ev, ok) : ev \in {{}, get_parents(E, v)}, ok \in BOOLEAN}
           : v \in N \cap CpdNodes}
    \cup {CPD("TreeCPD", <<n, 0>>, {}, TRUE) : n \in {m \in CpdNames : <<m, 0>> \in N}}
    \cup {CPD("TabularCPD", v, {}, TRUE) : v \in CpdNodes \ N}
    \cup {CPD("TabularCPD", v, {x}, TRUE) : v \in {<<"D", 0>>} \cap N, x \in {<<"G", 1>>} \ N}
    \cup {CPD("Factor", <<"D", 0>>, {}, TRUE)}

\* argument tuples of add_cpds
CpdArgLists(N, E) ==
    {<<c>> : c \in CpdArgs(N, E)}
    \cup {<<CPD("TabularCPD", <<"D", 0>>, {}, TRUE), CPD("TabularCPD", <<"D", 0>>, {}, FALSE)>>,
          <<CPD("TabularCPD", <<"D", 0>>, {}, TRUE), CPD("Factor", <<"D", 0>>, {}, TRUE)>>}

\* edges of the two-slice template: slice-0 intra edges and inter-slice edges
TemplateEdges(E) == {e \in E : ~(e[1][2] = 1 /\ e[2][2] = 1)}

Graph == [node |-> node, edge |-> edge]

\* ---------------------------------------------------------------- state
Init ==
    /\ node = {}
    /\ edge = {}
    /\ cpds = <<>>
    /\ ret = Return("__init__", <<>>, NoError, <<>>)

AddNode(name) ==
    LET G1 == super_add_node(Graph, <<name, 0>>)
    IN  /\ node' = G1.node
        /\ edge' = G1.edge
        /\ ret' = Return("add_node", <<name>>, NoError, <<>>)
        /\ UNCHANGED cpds

AddEdge(start, end) ==
    LET r == add_edge(Graph, start, end)
    IN  /\ r.err # NoError \/ Cardinality(TemplateEdges(r.edge)) <= MaxEdges
        /\ node' = r.node
        /\ edge' = r.edge
        /\ ret' = Return("add_edge", <<start, end>>, r.err, <<>>)
        /\ UNCHANGED cpds

AddNodesFrom(names) ==
    LET G1 == add_nodes_from(Graph, names)
    IN  /\ node' = G1.node
        /\ edge' = G1.edge
        /\ ret' = Return("add_nodes_from", names, NoError, <<>>)
        /\ UNCHANGED cpds

AddEdgesFrom(ebunch) ==
    LET r == add_edges_from(Graph, ebunch)
    IN  /\ Cardinality(TemplateEdges(r.edge)) <= MaxEdges
        /\ node' = r.node
        /\ edge' = r.edge
        /\ ret' = Return("add_edges_from", ebunch, r.err, <<>>)
        /\ UNCHANGED cpds

Nodes ==
    /\ ret' = Return("nodes", <<>>, NoError, nodes(node))
    /\ UNCHANGED <<node, edge, cpds>>

GetIntraEdges(time_slice) ==
    /\ ret' = IF valid_slice(time_slice)
              THEN Return("get_intra_edges", time_slice, NoError,
                          get_intra_edges(edge, time_slice))
              ELSE Return("get_intra_edges", time_slice, InvalidSliceError, <<>>)
    /\ UNCHANGED <<node, edge, cpds>>

GetInterEdges ==
    /\ ret' = Return("get_inter_edges", <<>>, NoError, get_inter_edges(edge))
    /\ UNCHANGED <<node, edge, cpds>>

GetInterfaceNodes(time_slice) ==
    /\ ret' = IF valid_slice(time_slice)
              THEN Return("get_interface_nodes", time_slice, NoError,
                          get_interface_nodes(edge, time_slice))
              ELSE Return("get_interface_nodes", time_slice, InvalidSliceError, <<>>)
    /\ UNCHANGED <<node, edge, cpds>>

GetSliceNodes(time_slice) ==
    /\ ret' = IF valid_slice(time_slice)
              THEN Return("get_slice_nodes", time_slice, NoError,
                          get_slice_nodes(node, time_slice))
              ELSE Return("get_slice_nodes", time_slice, InvalidSliceError, <<>>)
    /\ UNCHANGED <<node, edge, cpds>>

Moralize ==
    /\ ret' = Return("moralize", <<>>, NoError, moralize(Graph))
    /\ UNCHANGED <<node, edge, cpds>>

AddCpds(args) ==
    LET r == add_cpds(node, cpds, args)
    IN  /\ Len(r.cpds) <= MaxCpds
        /\ cpds' = r.cpds
        /\ ret' = Return("add_cpds", args, r.err, <<>>)
        /\ UNCHANGED <<node, edge>>

GetCpds(n) ==
    LET r == get_cpds(node, cpds, n)
    IN  /\ ret' = Return("get_cpds", n, r.err, r.val)
        /\ UNCHANGED <<node, edge, cpds>>

GetCpdsSlice(time_slice) ==
    /\ ret' = IF valid_slice(time_slice)
              THEN Return("get_cpds_slice", time_slice, NoError,
                          get_cpds_slice(node, cpds, time_slice))
              ELSE Return("get_cpds_slice", time_slice, InvalidSliceError, <<>>)
    /\ UNCHANGED <<node, edge, cpds>>

CheckModel ==
    LET r == check_model(Graph, cpds)
    IN  /\ ret' = Return("check_model", <<>>, r.err, r.node)
        /\ UNCHANGED <<node, edge, cpds>>

\* the value returned records the offending node, if any, and the number of
\* CPDs the call appended
InitializeInitialState ==
    LET r == initialize_initial_state(Graph, cpds)
    IN  /\ cpds' = r.cpds
        /\ ret' = Return("initialize_initial_state", <<>>, r.err,
                         [node |-> r.node, added |-> Len(r.cpds) - Len(cpds),
                          repeat |-> ret.op = "initialize_initial_state" /\ ret.err = NoError])
        /\ UNCHANGED <<node, edge>>

\* construction-phase and query operations of the graph
Next ==
    \/ \E name \in Names : AddNode(name)
    \/ \E names \in NameLists : AddNodesFrom(names)
    \/ \E e \in EdgeArgs : AddEdge(e[1], e[2])
    \/ \E ebunch \in Ebunches : AddEdgesFrom(ebunch)
    \/ Nodes
    \/ \E time_slice \in QuerySlices : GetIntraEdges(time_slice)
    \/ GetInterEdges
    \/ \E time_slice \in QuerySlices : GetInterfaceNodes(time_slice)
    \/ \E time_slice \in QuerySlices : GetSliceNodes(time_slice)
    \/ Moralize

Spec == Init /\ [][Next]_vars

\* a small template graph with CPDs attached, checked and completed
NextCpd ==
    \/ \E name \in CpdNames : AddNode(name)
    \/ \E e \in CpdEdgeArgs : AddEdge(e[1], e[2])
    \/ \E args \in CpdArgLists(node, edge) : AddCpds(args)
    \/ \E n \in CpdNodes : GetCpds(n)
    \/ \E time_slice \in CpdQuerySlices : GetCpdsSlice(time_slice)
    \/ CheckModel
    \/ InitializeInitialState

SpecCpd == Init /\ [][NextCpd]_vars

\* ------------------------------------------------------------------ claims
WellFormed(args) == Len(args[1]) = 2 /\ Len(args[2]) = 2

C2_Acyclic == \A e \in edge : ~has_path(edge, e[2], e[1])

\* an edge closing a cycle through a path of two edges was rejected
C2_Witness ==
    /\ ret.op = "add_edge" /\ ret.err = CycleError
    /\ <<<<ret.args[2][1], 0>>, <<ret.args[1][1], 0>>>> \notin edge
    /\ Cardinality(edge) >= 4

\* C3: every node and every edge endpoint has slice index 0 or 1, no edge
\* goes from slice 1 to slice 0, and every inter-slice edge goes from slice 0
\* to slice 1.
C3_ForwardOnly ==
    /\ \A n \in node : n[2] \in {0, 1}
    /\ \A e \in edge :
        /\ e[1][2] \in {0, 1} /\ e[2][2] \in {0, 1}
        /\ ~(e[1][2] = 1 /\ e[2][2] = 0)
        /\ e[1][2] # e[2][2] => (e[1][2] = 0 /\ e[2][2] = 1)

\* an inter-slice edge passed as slice 1 -> slice 2 was committed as 0 -> 1
C3_Witness ==
    /\ ret.op = "add_edge" /\ ret.err = NoError /\ WellFormed(ret.args)
    /\ ret.args[1][2] = 1 /\ ret.args[2][2] = 2
    /\ <<<<ret.args[1][1], 0>>, <<ret.args[2][1], 1>>>> \in edge

\* C4: add_edge((a,s+1),(b,s)) fails with InvalidDirectionError in every
\* graph state and for all names a, b, a = b included: the direction check
\* comes before the self-loop and cycle checks.
C4_BackwardRejected ==
    (ret.op = "add_edge" /\ WellFormed(ret.args) /\ ret.args[1][2] = ret.args[2][2] + 1)
        => ret.err = InvalidDirectionError

\* a backward edge between two copies of the same name was rejected, in a
\* graph where the two copies are already joined by the forward edge
C4_Witness ==
    /\ ret.op = "add_edge" /\ WellFormed(ret.args)
    /\ ret.args[1][2] = ret.args[2][2] + 1
    /\ ret.args[1][1] = ret.args[2][1]
    /\ ret.err = InvalidDirectionError
    /\ <<<<ret.args[1][1], 0>>, <<ret.args[1][1], 1>>>> \in edge

\* C5: add_edge((a,s),(a,s)) fails with SelfLoopError for every s, and
\* add_edge((a,s),(a,s+1)) is accepted and commits (a,0)->(a,1).
C5_SelfLoop ==
    (ret.op = "add_edge" /\ WellFormed(ret.args) /\ ret.args[1][1] = ret.args[2][1])
        => /\ ret.args[1][2] = ret.args[2][2] => ret.err = SelfLoopError
           /\ ret.args[1][2] + 1 = ret.args[2][2]
                => /\ ret.err = NoError
                   /\ <<<<ret.args[1][1], 0>>, <<ret.args[1][1], 1>>>> \in edge

\* a self-loop at slice 2 was rejected on a name whose forward edge
\* (a,0)->(a,1) had been accepted
C5_Witness ==
    /\ ret.op = "add_edge" /\ WellFormed(ret.args)
    /\ ret.args[1] = ret.args[2] /\ ret.args[1][2] = 2
    /\ ret.err = SelfLoopError
    /\ <<<<ret.args[1][1], 0>>, <<ret.args[1][1], 1>>>> \in edge

\* the elements of a list, and whether it lists an element twice
Elems(l) == {l[i] : i \in 1 .. Len(l)}
NoDuplicates(l) == \A i, j \in 1 .. Len(l) : l[i] = l[j] => i = j

\* a registered CPD agrees with the graph and sums to 1
ValidCpd(cpd) == cpd.evidence = get_parents(edge, cpd.variable) /\ cpd.ok

\* C6: check_model() returns true if and only if every entry of the CPD
\* list, a second table registered for a variable included, has an evidence
\* set equal to its variable's parent set and sums to 1; stated for lists of
\* tabular CPDs.
C6_CheckModelIffAllValid ==
    (ret.op = "check_model" /\ \A i \in 1 .. Len(cpds) : cpds[i].kind = "TabularCPD")
        => (ret.err = NoError <=> \A i \in 1 .. Len(cpds) : ValidCpd(cpds[i]))

\* C7: the edge set moralize() returns is exactly the undirected projection
\* of the directed edges together with {p,q} for every two distinct parents
\* p, q of a common child, so that the parents of every node are pairwise
\* adjacent in the result.
C7_MoralGraph ==
    ret.op = "moralize"
        => /\ ret.val = {{e[1], e[2]} : e \in edge}
                        \cup {{p[1][1], p[2][1]} :
                                p \in {x \in edge \X edge :
                                         x[1][2] = x[2][2] /\ x[1][1] # x[2][1]}}
           /\ \A n \in node : \A p, q \in get_parents(edge, n) :
                  p # q => {p, q} \in ret.val

\* moralize() married two parents, one of each slice, of a slice-1 node,
\* which no directed edge joins
C7_Witness ==
    /\ ret.op = "moralize"
    /\ \E n \in node : \E p, q \in get_parents(edge, n) :
          /\ n[2] = 1 /\ p[2] = 0 /\ q[2] = 1
          /\ <<p, q>> \notin edge /\ <<q, p>> \notin edge
          /\ {p, q} \in ret.val

\* C8: every CPD initialize_initial_state() appends has an evidence set equal
\* to the parent set of its variable in the graph, and the parent check of
\* check_model does not fail on the variable of an appended CPD.
C8_SynthesizedEvidence ==
    ret.op = "initialize_initial_state"
        => \A i \in (Len(cpds) - ret.val.added + 1) .. Len(cpds) :
              /\ cpds[i].evidence = get_parents(edge, cpds[i].variable)
              /\ check_node(Graph, cpds, cpds[i].variable) # InconsistentParentsError
              /\ ret.err = InconsistentParentsError => ret.val.node # <<cpds[i].variable>>

\* a call returned after appending a CPD for a slice-1 variable with parents
C8_Witness ==
    /\ ret.op = "initialize_initial_state" /\ ret.err = NoError
    /\ ret.val.added >= 1
    /\ cpds[Len(cpds)].variable[2] = 1
    /\ cpds[Len(cpds)].evidence # {}

\* C9: get_intra_edges(s) lists, once each, exactly the edges ((u,s),(v,s))
\* with (u,0)->(v,0) in the graph, and get_inter_edges() lists, once each,
\* exactly the edges whose endpoints differ in slice, all of the form
\* (u,0)->(v,1).
C9_SliceEdges ==
    /\ (ret.op = "get_intra_edges" /\ ret.err = NoError)
        => /\ NoDuplicates(ret.val)
           /\ Elems(ret.val) =
                {<<<<e[1][1], ret.args>>, <<e[2][1], ret.args>>>> :
                    e \in {x \in edge : x[1][2] = 0 /\ x[2][2] = 0}}
    /\ ret.op = "get_inter_edges"
        => /\ NoDuplicates(ret.val)
           /\ Elems(ret.val) = {e \in edge : e[1][2] # e[2][2]}
           /\ \A e \in Elems(ret.val) : e[1][2] = 0 /\ e[2][2] = 1

\* get_intra_edges(2) answered on a graph that holds a slice-0 edge, its
\* mirror and an inter-slice edge
C9_Witness ==
    /\ ret.op = "get_intra_edges" /\ ret.err = NoError /\ ret.args = 2
    /\ Len(ret.val) >= 1
    /\ \E e \in edge : e[1][2] = 1 /\ e[2][2] = 1
    /\ \E e \in edge : e[1][2] # e[2][2]

\* C10: get_interface_nodes(s) holds one entry (source name, s) per
\* inter-slice edge, so its elements are exactly the (n,s) for which (n,0)
\* is the source of at least one inter-slice edge.
C10_InterfaceNodes ==
    (ret.op = "get_interface_nodes" /\ ret.err = NoError)
        => LET inter == {e \in edge : e[1][2] # e[2][2]}
           IN  /\ Len(ret.val) = Cardinality(inter)
               /\ \A n \in Names :
                    Cardinality({i \in 1 .. Len(ret.val) : ret.val[i] = <<n, ret.args>>})
                        = Cardinality({e \in inter : e[1][1] = n})
               /\ Elems(ret.val) =
                    {<<n, ret.args>> : n \in {m \in Names : \E e \in inter : e[1] = <<m, 0>>}}

\* get_interface_nodes(1) listed a node twice: it is the source of two
\* inter-slice edges
C10_Witness ==
    /\ ret.op = "get_interface_nodes" /\ ret.err = NoError /\ ret.args = 1
    /\ Len(ret.val) = 2
    /\ ret.val[1] = ret.val[2]

\* C11: add_node(name) for a name whose slice-0 node is already in the graph,
\* from an earlier add_node or from add_edge, leaves the node set, the
\* result of nodes() and the edge set unchanged.
C11_AddNodeIdempotent ==
    [][(ret'.op = "add_node" /\ <<ret'.args[1], 0>> \in node)
         => /\ node' = node
            /\ nodes(node') = nodes(node)
            /\ edge' = edge]_vars

\* add_node returned for a name that add_edge had introduced as the source
\* of a slice-0 edge
C11_Witness ==
    /\ ret.op = "add_node"
    /\ \E e \in edge : e[1] = <<ret.args[1], 0>> /\ e[2][2] = 0

\* a CPD of a recognized class
Recognized(cpd) == cpd.kind \in {"TabularCPD", "TreeCPD", "RuleCPD"}

\* C12: after every add_node, add_edge, add_cpds and
\* initialize_initial_state call, the owned variable and every evidence
\* variable of every registered CPD is a node of the graph; add_cpds called
\* with a CPD that references a missing node fails with UnknownVariableError
\* and leaves the CPD list as it was.
C12_CpdVariablesAreNodes ==
    [][/\ \A i \in 1 .. Len(cpds') :
             {cpds'[i].variable} \cup cpds'[i].evidence \subseteq node'
       /\ (/\ ret'.op = "add_cpds"
           /\ Recognized(ret'.args[1])
           /\ ~({ret'.args[1].variable} \cup ret'.args[1].evidence \subseteq node))
            => (ret'.err = UnknownVariableError /\ cpds' = cpds)]_vars

\* add_cpds rejected a CPD whose owned variable is a node but whose evidence
\* variable is not, in a model that already holds a CPD
C12_Witness ==
    /\ ret.op = "add_cpds" /\ ret.err = UnknownVariableError
    /\ ret.args[1].variable \in node
    /\ ret.args[1].evidence # {}
    /\ Len(cpds) >= 1

\* the graph edges a successful add_edge(e[1], e[2]) puts in place
EdgesOf(e) ==
    IF e[1][2] = e[2][2]
    THEN {<<<<e[1][1], 0>>, <<e[2][1], 0>>>>, <<<<e[1][1], 1>>, <<e[2][1], 1>>>>}
    ELSE {<<<<e[1][1], 0>>, <<e[2][1], 1>>>>}

\* C13: when add_edges_from(e1..en) fails, the failure is that of the first
\* edge ek that add_edge rejects: the edges of e1..e(k-1), mirrors included,
\* have been added to the graph and stay there, ek is rejected in the state
\* they leave with the error the call reports, and nothing of ek..en is added.
C13_BatchNotTransactional ==
    [][(ret'.op = "add_edges_from" /\ ret'.err # NoError)
         => \E k \in 1 .. Len(ret'.args) :
              /\ edge' = edge \cup UNION {EdgesOf(ret'.args[j]) : j \in 1 .. k - 1}
              /\ node' = node \cup UNION {{x[1], x[2]} :
                                   x \in UNION {EdgesOf(ret'.args[j]) : j \in 1 .. k - 1}}
              /\ \A j \in 1 .. k - 1 :
                    normalize(ret'.args[j][1], ret'.args[j][2]).err = NoError
              /\ add_edge([node |-> node', edge |-> edge'],
                          ret'.args[k][1], ret'.args[k][2]).err = ret'.err]_vars

\* a batch failed at its second edge with the first edge and its mirror kept
\* and the third edge absent
C13_Witness ==
    /\ ret.op = "add_edges_from" /\ ret.err = InvalidDirectionError
    /\ Len(ret.args) = 3
    /\ EdgesOf(ret.args[1]) \subseteq edge
    /\ Cardinality(EdgesOf(ret.args[1])) = 2
    /\ EdgesOf(ret.args[3]) \cap edge = {}

\* the graph edges with both endpoints in slice 1
Slice1Edges(E) == {e \in E : e[1][2] = 1 /\ e[2][2] = 1}

\* C14: a successful add_edge((u,s),(v,s+1)) adds the single edge
\* (u,0)->(v,1) to the graph and no mirror of it; after every call each
\* intra edge of slice 1 is the mirror of a slice-0 edge of the graph; and
\* get_intra_edges(1) returns exactly the graph edges with both endpoints in
\* slice 1.
C14_InterNotMirrored ==
    [][/\ (/\ ret'.op = "add_edge" /\ ret'.err = NoError
           /\ ret'.args[2][2] = ret'.args[1][2] + 1)
            => edge' = edge \cup {<<<<ret'.args[1][1], 0>>, <<ret'.args[2][1], 1>>>>}
       /\ \A e \in Slice1Edges(edge') :
            <<<<e[1][1], 0>>, <<e[2][1], 0>>>> \in edge'
       /\ (ret'.op = "get_intra_edges" /\ ret'.args = 1)
            => Elems(ret'.val) = Slice1Edges(edge')]_vars

\* an inter-slice edge given with slices 1 and 2 was added to a graph that
\* holds a mirrored intra edge, and its reverse-slice twin is absent
C14_Witness ==
    /\ ret.op = "add_edge" /\ ret.err = NoError /\ WellFormed(ret.args)
    /\ ret.args[1][2] = 1 /\ ret.args[2][2] = 2
    /\ <<<<ret.args[1][1], 0>>, <<ret.args[2][1], 1>>>> \in edge
    /\ <<<<ret.args[1][1], 1>>, <<ret.args[2][1], 0>>>> \notin edge
    /\ Slice1Edges(edge) # {}

\* no two CPDs of the list own the same variable
OwnsAtMostOne(cs) ==
    \A i, j \in 1 .. Len(cs) : cs[i].variable = cs[j].variable => i = j

\* C15: initialize_initial_state keeps the CPDs registered before the call in
\* place and appends a CPD only for a variable that no earlier CPD of the
\* list owns, CPDs appended earlier in the same call included; so a list in
\* which every variable owns at most one CPD stays such a list.
C15_NoSecondCpd ==
    [][ret'.op = "initialize_initial_state"
         => /\ Len(cpds') >= Len(cpds)
            /\ SubSeq(cpds', 1, Len(cpds)) = cpds
            /\ \A j \in Len(cpds) + 1 .. Len(cpds') :
                 \A x \in 1 .. j - 1 : cpds'[x].variable # cpds'[j].variable
            /\ (OwnsAtMostOne(cpds) => OwnsAtMostOne(cpds'))]_vars

\* a call appended a CPD and then skipped the mirror of the appended CPD,
\* which is the variable of the CPD it was built from
C15_Witness ==
    /\ ret.op = "initialize_initial_state" /\ ret.err = NoError
    /\ ret.val.added >= 1
    /\ OwnsAtMostOne(cpds)
    /\ \E i \in 1 .. Len(cpds) - ret.val.added :
         \E j \in Len(cpds) - ret.val.added + 1 .. Len(cpds) :
            cpds[j].variable = <<cpds[i].variable[1], 1 - cpds[i].variable[2]>>

\* the parents of v lie in at most one slice
OneSliceParents(E, v) ==
    \A e1, e2 \in {e \in E : e[2] = v} : e1[1][2] = e2[1][2]

\* the same variable in the other slice
Mirror(v) == <<v[1], 1 - v[2]>>

\* C16: every CPD initialize_initial_state appends is owned by a variable
\* that has no parents or whose parents all lie in one slice, so a variable
\* with a parent in each slice gets none; and when the call succeeds, every
\* CPD registered before the call whose mirrored variable passes that guard
\* and owned no CPD finds a CPD of the mirrored variable appended.
C16_GuardedSynthesis ==
    [][ret'.op = "initialize_initial_state"
         => /\ \A j \in Len(cpds) + 1 .. Len(cpds') :
                 OneSliceParents(edge, cpds'[j].variable)
            /\ \A v \in node :
                 (/\ \E e \in edge : e[2] = v /\ e[1][2] = 0
                  /\ \E e \in edge : e[2] = v /\ e[1][2] = 1)
                   => \A j \in Len(cpds) + 1 .. Len(cpds') : cpds'[j].variable # v
            /\ ret'.err = NoError
                 => \A i \in 1 .. Len(cpds) :
                      (/\ OneSliceParents(edge, Mirror(cpds[i].variable))
                       /\ \A x \in 1 .. Len(cpds) :
                            cpds[x].variable # Mirror(cpds[i].variable))
                        => \E j \in Len(cpds) + 1 .. Len(cpds') :
                             cpds'[j].variable = Mirror(cpds[i].variable)]_vars

\* a successful call appended a CPD and left the mirror of a registered CPD,
\* a variable with a parent in each slice, without one
C16_Witness ==
    /\ ret.op = "initialize_initial_state" /\ ret.err = NoError
    /\ ret.val.added >= 1
    /\ \E i \in 1 .. Len(cpds) - ret.val.added :
         /\ ~OneSliceParents(edge, Mirror(cpds[i].variable))
         /\ \A x \in 1 .. Len(cpds) : cpds[x].variable # Mirror(cpds[i].variable)

\* C17: add_cpds appends the CPDs it was given to the end of the list, in
\* the order given and up to the first one it rejects, and changes no CPD
\* already there; it rejects none whose class is recognized and whose
\* variables are graph nodes, whether or not the variable already owns a
\* CPD. get_cpds(node) fails with UnknownVariableError for a node outside
\* the graph, and otherwise returns the CPD of lowest list position owned by
\* node, or nothing when there is none.
C17_AppendAndFirstMatch ==
    [][/\ ret'.op = "add_cpds"
            => /\ \E k \in 0 .. Len(ret'.args) :
                    cpds' = cpds \o SubSeq(ret'.args, 1, k)
               /\ ret'.err = NoError => cpds' = cpds \o ret'.args
               /\ (\A i \in 1 .. Len(ret'.args) :
                     /\ Recognized(ret'.args[i])
                     /\ {ret'.args[i].variable} \cup ret'.args[i].evidence \subseteq node)
                    => ret'.err = NoError
       /\ ret'.op = "get_cpds"
            => IF ret'.args \notin node
               THEN ret'.err = UnknownVariableError
               ELSE /\ ret'.err = NoError
                    /\ LET owned == {i \in 1 .. Len(cpds) : cpds[i].variable = ret'.args}
                       IN  IF owned = {}
                           THEN ret'.val = <<>>
                           ELSE \E i \in owned :
                                  /\ \A j \in owned : i <= j
                                  /\ ret'.val = <<cpds[i]>>]_vars

\* get_cpds answered for a variable that owns two different CPDs
C17_Witness ==
    /\ ret.op = "get_cpds" /\ ret.err = NoError
    /\ Len(cpds) >= 2
    /\ cpds[1].variable = ret.args /\ cpds[2].variable = ret.args
    /\ cpds[1] # cpds[2]
    /\ ret.val = <<cpds[1]>>

\* C18: an add_edge call that fails, with MalformedNodeError,
\* InvalidDirectionError, UnsupportedSpanError, SelfLoopError or CycleError,
\* leaves the node set, the edge set and the CPD list as they were before
\* the call.
C18_FailedAddEdgeNoChange ==
    [][(/\ ret'.op = "add_edge"
        /\ ret'.err \in {MalformedNodeError, InvalidDirectionError,
                         UnsupportedSpanError, SelfLoopError, CycleError})
         => /\ node' = node
            /\ edge' = edge
            /\ cpds' = cpds]_vars

\* add_edge was rejected for an endpoint pair of which one node is not in
\* the graph, which holds edges
C18_Witness ==
    /\ ret.op = "add_edge" /\ ret.err = SelfLoopError
    /\ <<ret.args[1][1], 0>> \notin node
    /\ edge # {}

\* C19: initialize_initial_state returns, having appended at most as many
\* CPDs as the list held before the call, so that its loop visits at most
\* twice that many; each appended CPD is owned by the mirror of the variable
\* of a CPD registered before the call, which is why visiting it appends
\* nothing.
C19_BoundedSynthesis ==
    ret.op = "initialize_initial_state"
        => /\ ret.val.added >= 0
           /\ ret.val.added <= Len(cpds) - ret.val.added
           /\ \A j \in Len(cpds) - ret.val.added + 1 .. Len(cpds) :
                \E i \in 1 .. Len(cpds) - ret.val.added :
                   cpds[j].variable = Mirror(cpds[i].variable)

\* a call appended one CPD for each of the two CPDs registered before it
C19_Witness ==
    /\ ret.op = "initialize_initial_state" /\ ret.err = NoError
    /\ ret.val.added = 2
    /\ Len(cpds) = 4

\* C20: an initialize_initial_state call that directly follows a successful
\* initialize_initial_state call appends no CPD and leaves the node set, the
\* edge set and the CPD list as they are.
C20_Idempotent ==
    [][(/\ ret.op = "initialize_initial_state" /\ ret.err = NoError
        /\ ret'.op = "initialize_initial_state")
         => /\ cpds' = cpds
            /\ node' = node
            /\ edge' = edge
            /\ ret'.val.added = 0
            /\ ret'.err = NoError]_vars

\* the second of two successive calls returned on a list that holds a CPD
\* and, after it, a CPD of its mirrored variable
C20_Witness ==
    /\ ret.op = "initialize_initial_state" /\ ret.err = NoError
    /\ ret.val.repeat
    /\ Len(cpds) >= 2
    /\ \E i, j \in 1 .. Len(cpds) : i < j /\ cpds[j].variable = Mirror(cpds[i].variable)

====
